---- MODULE Spec2Model ----
(***************************************************************************)
(* GraphWatcher: the development-time build-pipeline coordinator.          *)
(* It checks the Watchman capability, syncs the GraphQL schema snapshot    *)
(* and runs relay-compiler once, then subscribes to two source trees and   *)
(* re-runs the pipeline on every change-event batch.                       *)
(*                                                                         *)
(* One action is one turn of the Node event loop: the callback of one I/O  *)
(* completion together with every promise continuation (microtask) it      *)
(* makes runnable.  The environment (the Watchman service, the GraphQL     *)
(* endpoint, the file system, the compiler subprocess, the operating       *)
(* system's signals) chooses the order of completions and their results.   *)
(***************************************************************************)
EXTENDS Integers, Sequences, FiniteSets, TLC

\* ------------------------------------------------------------- bounds
\* Number of change-event batches the notification service pushes.
MaxBatches == 2
\* Number of watchProject calls made by the caller of SpecWatch.
MaxCalls == 3
\* Length of the stdout the compiler subprocess leaves in SpecCompile.
MaxStdout == 7
\* Number of times the activation form of TwoFactorConfigure is submitted.
MaxSubmits == 2

\* ---------------------------------------------------------- constants
\* The keys of SUBSCRIPTIONS; a subscription's id equals its key.
SUBSCRIPTIONS == {"graph", "frontend"}

\* SUBSCRIPTIONS[s].path
SubscriptionPath(s) ==
  IF s = "graph" THEN "app/models/api/graph" ELSE "vendor/frontend/app"

\* path.normalize(path.join(rootPath, relativePath))
WatchPath(s) == <<"root", SubscriptionPath(s)>>

Paths == {WatchPath(s) : s \in SUBSCRIPTIONS}

Signals == {"SIGINT", "SIGTERM"}

\* What starts a pipeline run: start() itself, or the callback of a subscription.
Triggers == {"init"} \cup SUBSCRIPTIONS

\* The statement of the snapshot before the process starts (an earlier sync).
InitialSnapshot == <<"{", "D0", "}">>

\* ------------------------------------------------- environment's answers
\* `data` members a response body can carry ("undefined": no such member).
DataValues == {"undefined", "D1", "D2"}
\* `errors` members a response body can carry: absent, null, a list.
ErrorsValues == {"undefined", "null", "list"}
\* The bodies response.json() can parse.
Bodies == [data : DataValues, errors : ErrorsValues]
\* No body has been read.
NoBody == [data |-> "undefined", errors |-> "undefined"]

\* Captured stdout of the compiler, as the sequence of its characters; "\n"
\* is the newline.  One empty output and one with four header lines, two
\* message lines and the trailing newline.
Stdouts ==
  { <<>>,
    <<"h", "\n", "h", "\n", "h", "\n", "h", "\n", "x", "\n", "y", "\n">> }

\* Exit codes of the subprocess: 0, a failing code, killed by a signal (null).
ExitCodes == {"0", "1", "null"}

\* File lists of a change-event batch.
FileLists == { <<"a", "b">>, <<"b", "a">> }

\* ------------------------------------------------------------ helpers
Max(a, b) == IF a > b THEN a ELSE b

\* JavaScript truthiness of an `errors` member: `if (errors)`.
Truthy(v) == v \notin {"undefined", "null"}

\* Faulty variant of JSONStringify: JSON.stringify(data, null, 2), the data without
\* the object around it.
JSONStringifyBare(data) == << data >>

\* JSON.stringify({ data }, null, 2): a member whose value is undefined is
\* left out of the object.
JSONStringify(data) ==
  IF data = "undefined" THEN << "{}" >> ELSE << "{", data, "}" >>

\* string.split('\n'): the pieces between the newlines; the empty string
\* gives one empty piece.
RECURSIVE Split(_)
Split(s) ==
  IF \A i \in 1..Len(s) : s[i] # "\n"
  THEN << s >>
  ELSE LET k == CHOOSE i \in 1..Len(s) :
                  s[i] = "\n" /\ \A j \in 1..(i - 1) : s[j] # "\n"
       IN  << SubSeq(s, 1, k - 1) >> \o Split(SubSeq(s, k + 1, Len(s)))

\* Faulty variant of Slice4: slice(4), the last element is kept.
Slice4KeepsLast(lines) ==
  IF Len(lines) <= 4 THEN << >> ELSE SubSeq(lines, 5, Len(lines))

\* array.slice(4, -1): from index 4 up to, not including, the last element.
Slice4(lines) ==
  IF Len(lines) <= 5 THEN << >> ELSE SubSeq(lines, 5, Len(lines) - 1)

\* stdout.split('\n').slice(4, -1).forEach(logger[level])
LogLines(level, stdout) ==
  LET lines == Slice4(Split(stdout))
  IN  [i \in 1..Len(lines) |-> [level |-> level, msg |-> lines[i]]]

\* A write of `chunk` at byte offset `pos` of a file holding `f`: what lies
\* under the chunk is replaced, the rest stays, a gap reads as zero bytes.
WriteAt(f, pos, chunk) ==
  [i \in 1..Max(Len(f), pos + Len(chunk)) |->
     IF i > pos /\ i <= pos + Len(chunk) THEN chunk[i - pos]
     ELSE IF i <= Len(f) THEN f[i] ELSE "NUL"]

Remove(seq, i) == SubSeq(seq, 1, i - 1) \o SubSeq(seq, i + 1, Len(seq))

\* ---------------------------------------------------------------- state
VARIABLES
  phase,       \* where start() is: "capability", "initial", "subscribed"
  exited,      \* the process has exited
  exitCode,    \* its exit status
  exitCause,   \* "none", "signal", "capability", "watch", "uncaught"
  conn,        \* the Watchman client connection: "open" or "closed"
  endCalls,    \* number of client.end() calls
  sub,         \* per subscription, where subscribe() is
  project,     \* per subscription, what its `await watchProject` gave
  watchRequests, \* per path, the watch-project commands issued
  requests,    \* per subscription, the clock and subscribe commands issued
  listeners,   \* the 'subscription' listeners of the client, in registration order
  runs,        \* pipeline runs in flight, in the order their handlers started
  file,        \* content of SCHEMA_PATH
  started,     \* per trigger, the schema syncs and compiler runs started
  delivered,   \* per subscription id, batches the service pushed
  invoked,     \* per subscription, invocations of its callback
  last,        \* the operation that finished last and what it gave
  calls,       \* SpecWatch: the watchProject calls of the caller
  component    \* SpecConfigure: the TwoFactorConfigure instance

vars == << phase, exited, exitCode, exitCause, conn, endCalls, sub, project,
           watchRequests, requests,
           listeners, runs, file, started, delivered, invoked, last,
           calls, component >>

procVars == << exited, exitCode, exitCause >>
subVars == << sub, project, watchRequests, requests, listeners >>
eventVars == << delivered, invoked >>

\* The variables of the GraphWatcher script.
watcherVars == << phase, exited, exitCode, exitCause, conn, endCalls, sub,
                  project, watchRequests, requests, listeners, runs, file,
                  started, delivered, invoked, last, calls >>

\* ids the server gives the TOTP record the create mutation makes.
TotpIds == {"totp1", "totp2"}
\* What the user types into the code field.
Tokens == {"123456", "654321"}
\* error.source.type of a failed mutation: ESCALATION_ERROR or any other.
ErrorTypes == {"ESCALATION_ERROR", "OTHER"}

\* A TwoFactorConfigure instance as constructed: `state` as the class
\* initialises it; not mounted yet; no mutation committed, none waiting
\* for its callbacks (inflight), no onCompleted callback invoked yet
\* (completed), and what `completed` was when it was unmounted.
NewComponent ==
  [state |-> [generatingTOTP |-> TRUE, generatedTOTP |-> FALSE,
              activatingTOTP |-> FALSE, activatedTOTP |-> FALSE,
              totpId |-> "null", provisioningUri |-> "null",
              totpToken |-> ""],
   mounted |-> "no",
   reloaded |-> FALSE,
   committed |-> << >>,
   inflight |-> << >>,
   completed |-> {},
   completedAtUnmount |-> {}]

\* `project` of a call of subscribe() whose watchProject has not resolved.
NoProject == [watch |-> "none", relative_path |-> "none"]

NoLast ==
  [op |-> "none", who |-> "none", outcome |-> "none", returned |-> "none",
   log |-> << >>, arg |-> << >>]

Init ==
  /\ phase = "capability"
  /\ exited = FALSE
  /\ exitCode = 0
  /\ exitCause = "none"
  /\ conn = "open"
  /\ endCalls = 0
  /\ sub = [s \in SUBSCRIPTIONS |-> "Unestablished"]
  /\ project = [s \in SUBSCRIPTIONS |-> NoProject]
  /\ watchRequests = [p \in Paths |-> 0]
  /\ requests = [s \in SUBSCRIPTIONS |-> [clock |-> 0, subscribe |-> 0]]
  /\ listeners = << >>
  /\ runs = << >>
  /\ file = InitialSnapshot
  /\ started = [t \in Triggers |-> [sync |-> 0, compile |-> 0]]
  /\ delivered = [s \in SUBSCRIPTIONS |-> 0]
  /\ invoked = [s \in SUBSCRIPTIONS |-> 0]
  /\ last = NoLast
  /\ calls = << >>
  /\ component = NewComponent

\* ------------------------------------------------------ process lifecycle
\* process.exit(code), or the end of the process on an uncaught exception:
\* the tasks of the process are gone, the file keeps what was written so far.
Exit(code, cause) ==
  /\ exited' = TRUE
  /\ exitCode' = code
  /\ exitCause' = cause
  /\ runs' = << >>

\* Faulty variant of SignalHandler: the handler runs only once no run is in flight.
SignalHandlerWaits(signal) ==
  /\ ~exited
  /\ runs = << >>
  /\ conn' = "closed"
  /\ endCalls' = endCalls + 1
  /\ last' = [op |-> "signal", who |-> signal, outcome |-> "shutdown",
              returned |-> "exit",
              log |-> << [level |-> "warn", msg |-> "Received"],
                         [level |-> "info", msg |-> "Bye"] >>,
              arg |-> [k \in DOMAIN runs |-> runs[k].pc]]
  /\ Exit(0, "signal")
  /\ UNCHANGED << phase, subVars, file, started, eventVars, calls, component >>

\* Faulty variant of SignalHandler: client.end() is left out.
SignalHandlerNoEnd(signal) ==
  /\ ~exited
  /\ last' = [op |-> "signal", who |-> signal, outcome |-> "shutdown",
              returned |-> "exit",
              log |-> << [level |-> "warn", msg |-> "Received"],
                         [level |-> "info", msg |-> "Bye"] >>,
              arg |-> [k \in DOMAIN runs |-> runs[k].pc]]
  /\ Exit(0, "signal")
  /\ UNCHANGED << phase, conn, endCalls, subVars, file, started, eventVars,
                  calls, component >>

\* The handler start() installs for SIGINT and SIGTERM: log, client.end(),
\* log, process.exit() (status 0: process.exitCode is never set).
SignalHandler(signal) ==
  /\ ~exited
  /\ conn' = "closed"
  /\ endCalls' = endCalls + 1
  /\ last' = [op |-> "signal", who |-> signal, outcome |-> "shutdown",
              returned |-> "exit",
              log |-> << [level |-> "warn", msg |-> "Received"],
                         [level |-> "info", msg |-> "Bye"] >>,
              arg |-> [k \in DOMAIN runs |-> runs[k].pc]]
  /\ Exit(0, "signal")
  /\ UNCHANGED << phase, subVars, file, started, eventVars, calls, component >>

\* ------------------------------------------------------- pipeline steps
\* Faulty variant of NewSync: the response of an earlier call is used again, no
\* new POST is made.
NewSyncReusesResponse(trigger) ==
  [trigger |-> trigger, pc |-> "json", data |-> "undefined", pos |-> 0,
   synced |-> FALSE, alone |-> TRUE]

\* syncGraphqlSchemaToDisk() up to its first await: the POST is in flight.
NewSync(trigger) ==
  [trigger |-> trigger, pc |-> "fetch", data |-> "undefined", pos |-> 0,
   synced |-> FALSE, alone |-> TRUE]

\* compileRelayGeneratedArtifacts() up to its await: the subprocess runs.
NewCompile(trigger) ==
  [trigger |-> trigger, pc |-> "exec", data |-> "undefined", pos |-> 0,
   synced |-> FALSE, alone |-> TRUE]

\* The text writeFile is given in run r: JSON.stringify({ data }, null, 2).
Content(r) == JSONStringify(r.data)

\* What syncGraphqlSchemaToDisk() has done to SCHEMA_PATH in run r by the
\* time it ends: nothing, or the data it gave a writeFile that opened it,
\* and whether no other writeFile had the file open meanwhile (alone).
Written(r) ==
  IF r.pc = "write"
  THEN [opened |-> TRUE, data |-> r.data, alone |-> r.alone]
  ELSE [opened |-> FALSE, data |-> "undefined", alone |-> TRUE]

\* Faulty variant of SyncSettles: the non-success branch throws outside the try block.
SyncSettlesRejectsOnStatus(outcome) ==
  IF outcome = "status"
  THEN [state |-> "rejected", value |-> "error"]
  ELSE [state |-> "resolved", value |-> "undefined"]

\* Faulty variant of SyncSettles: the catch block rethrows what it has logged.
SyncSettlesRethrows(outcome) ==
  IF outcome = "written"
  THEN [state |-> "resolved", value |-> "undefined"]
  ELSE [state |-> "rejected", value |-> "error"]

\* How the promise of syncGraphqlSchemaToDisk() settles: every failure is
\* caught and logged inside, so it always resolves, with undefined.
SyncSettles(outcome) == [state |-> "resolved", value |-> "undefined"]

\* What syncGraphqlSchemaToDisk() logs when it ends.
SyncLog(outcome) ==
  IF outcome = "written"
  THEN << [level |-> "info", msg |-> "Synced"] >>
  ELSE << [level |-> "error", msg |-> outcome] >>

\* syncGraphqlSchemaToDisk() comes to its end in run i; the caller that
\* awaited it (start, or the handler of the graph subscription) goes on to
\* compileRelayGeneratedArtifacts() in the same turn.  A rejection would end
\* the caller instead.
SyncReturns(i, outcome, body) ==
  LET settled == SyncSettles(outcome)
  IN  /\ runs' = IF settled.state = "resolved"
                 THEN [runs EXCEPT ![i] = [NewCompile(@.trigger) EXCEPT !.synced = TRUE]]
                 ELSE Remove(runs, i)
      /\ started' = IF settled.state = "resolved"
                    THEN [started EXCEPT ![runs[i].trigger].compile = @ + 1]
                    ELSE started
      /\ last' = [op |-> "sync", who |-> runs[i].trigger, outcome |-> outcome,
                  returned |-> IF settled.state = "resolved"
                               THEN settled.value ELSE "error",
                  log |-> SyncLog(outcome),
                  arg |-> [body |-> body, file |-> Written(runs[i])]]

\* fetch() rejects: a network-level failure.
FetchRejects(i) ==
  /\ ~exited
  /\ runs[i].pc = "fetch"
  /\ SyncReturns(i, "network", NoBody)
  /\ UNCHANGED << phase, procVars, conn, endCalls, subVars, file, eventVars, calls, component >>

\* fetch() resolves with a response: response.ok decides.
FetchResponds(i, ok) ==
  /\ ~exited
  /\ runs[i].pc = "fetch"
  /\ IF ok
     THEN /\ runs' = [runs EXCEPT ![i].pc = "json"]
          /\ last' = [op |-> "fetch", who |-> runs[i].trigger,
                      outcome |-> "ok", returned |-> "none", log |-> << >>,
                      arg |-> << >>]
          /\ UNCHANGED << started >>
     ELSE SyncReturns(i, "status", NoBody)
  /\ UNCHANGED << phase, procVars, conn, endCalls, subVars, file, eventVars, calls, component >>

\* response.json() rejects: the body is not JSON.
JsonRejects(i) ==
  /\ ~exited
  /\ runs[i].pc = "json"
  /\ SyncReturns(i, "invalid", NoBody)
  /\ UNCHANGED << phase, procVars, conn, endCalls, subVars, file, eventVars, calls, component >>

\* response.json() resolves with { data, errors }: a truthy `errors` is
\* thrown and caught, anything else starts writeFile.
JsonResolves(i, body) ==
  /\ ~exited
  /\ runs[i].pc = "json"
  /\ IF Truthy(body.errors)
     THEN SyncReturns(i, "errors", body)
     ELSE /\ runs' = [runs EXCEPT ![i].pc = "open", ![i].data = body.data]
          /\ last' = [op |-> "json", who |-> runs[i].trigger,
                      outcome |-> "writeFile", returned |-> "none",
                      log |-> << >>,
                      arg |-> [body |-> body, file |-> Written(runs[i])]]
          /\ UNCHANGED << started >>
  /\ UNCHANGED << phase, procVars, conn, endCalls, subVars, file, eventVars, calls, component >>

\* Faulty variant of WriteOpens: the file is opened with flag 'a', nothing is
\* truncated and the text goes to the end of the file.
WriteOpensAppend(i) ==
  /\ ~exited
  /\ runs[i].pc = "open"
  /\ file' = file \o Content(runs[i])
  /\ runs' = [k \in DOMAIN runs |->
               IF k = i
               THEN [runs[k] EXCEPT
                       !.pc = "write",
                       !.pos = Len(Content(runs[k])),
                       !.alone = \A j \in DOMAIN runs : runs[j].pc # "write"]
               ELSE IF runs[k].pc = "write"
               THEN [runs[k] EXCEPT !.alone = FALSE]
               ELSE runs[k]]
  /\ UNCHANGED << phase, procVars, conn, endCalls, subVars, started, eventVars,
                  last, calls, component >>

\* Faulty variant of WriteOpens: a lock on SCHEMA_PATH, the file is opened only
\* when no other writeFile has it open.
WriteOpensLocked(i) ==
  /\ ~exited
  /\ runs[i].pc = "open"
  /\ \A j \in DOMAIN runs : runs[j].pc # "write"
  /\ file' = << >>
  /\ runs' = [runs EXCEPT ![i].pc = "write"]
  /\ UNCHANGED << phase, procVars, conn, endCalls, subVars, started, eventVars,
                  last, calls, component >>

\* writeFile opens SCHEMA_PATH with flag 'w': the file is truncated.  The
\* run and every run that has the file open now share it.
WriteOpens(i) ==
  /\ ~exited
  /\ runs[i].pc = "open"
  /\ file' = << >>
  /\ runs' = [k \in DOMAIN runs |->
               IF k = i
               THEN [runs[k] EXCEPT
                       !.pc = "write",
                       !.alone = \A j \in DOMAIN runs : runs[j].pc # "write"]
               ELSE IF runs[k].pc = "write"
               THEN [runs[k] EXCEPT !.alone = FALSE]
               ELSE runs[k]]
  /\ UNCHANGED << phase, procVars, conn, endCalls, subVars, started, eventVars,
                  last, calls, component >>

\* The open fails (no such directory, no permission): writeFile rejects.
WriteOpenFails(i) ==
  /\ ~exited
  /\ runs[i].pc = "open"
  /\ SyncReturns(i, "writefail", NoBody)
  /\ UNCHANGED << phase, procVars, conn, endCalls, subVars, file, eventVars, calls, component >>

\* writeFile writes the next n pieces of the content at its own offset.
WriteChunk(i, n) ==
  /\ ~exited
  /\ runs[i].pc = "write"
  /\ n \in 1..(Len(Content(runs[i])) - runs[i].pos)
  /\ file' = WriteAt(file, runs[i].pos,
                     SubSeq(Content(runs[i]), runs[i].pos + 1, runs[i].pos + n))
  /\ runs' = [runs EXCEPT ![i].pos = @ + n]
  /\ UNCHANGED << phase, procVars, conn, endCalls, subVars, started, eventVars,
                  last, calls, component >>

\* Everything is written: writeFile closes the file and resolves.
WriteDone(i) ==
  /\ ~exited
  /\ runs[i].pc = "write"
  /\ runs[i].pos = Len(Content(runs[i]))
  /\ SyncReturns(i, "written", NoBody)
  /\ UNCHANGED << phase, procVars, conn, endCalls, subVars, file, eventVars, calls, component >>


\* ------------------------------------------------- watches and subscriptions
\* The response to the watch-project command for the path of subscription
\* s: the root of the project the path lies in and the path relative to it.
WatchResponse(s) == [watch |-> "root", relative_path |-> SubscriptionPath(s)]

\* The clock value in the response to the clock command of subscription s:
\* the service's clock when it answered that command.
Clock(s) == << "clock", s >>

\* Faulty variant of Project: `project` is one variable shared by the calls of
\* subscribe(), holding what the other call stored when that has resolved.
ProjectShared(s) ==
  LET o == CHOOSE x \in SUBSCRIPTIONS : x # s
  IN  IF project[o] # NoProject THEN project[o] ELSE project[s]

\* `project` in the call of subscribe() for subscription s: a constant of
\* that call, bound to what its own watchProject resolved with.
Project(s) == project[s]

\* The subscribe command the clock callback of subscription s issues:
\* ['subscribe', project.watch, subscriptionId, { ...config, since,
\* relative_root: project.relative_path }].
SubscribeCommand(s, since) ==
  << "subscribe", Project(s).watch, s,
     [config |-> s, since |-> since,
      relative_root |-> Project(s).relative_path] >>

\* Faulty variant of watchProject: a path already watched issues no new command.
watchProjectCached(reqs, path) ==
  IF reqs[path] > 0 THEN reqs ELSE [reqs EXCEPT ![path] = @ + 1]

\* watchProject(client, path) up to the command: it logs and issues one
\* watch-project command for the path, whatever was issued before.
watchProject(reqs, path) == [reqs EXCEPT ![path] = @ + 1]

\* Faulty variant of SubscribeBoth: subscribe() does not await watchProject and
\* issues the clock command along with the watch-project command.
SubscribeBothNoAwait ==
  /\ sub' = [s \in SUBSCRIPTIONS |-> "ClockPending"]
  /\ watchRequests' =
       watchProject(watchProject(watchRequests, WatchPath("graph")),
                    WatchPath("frontend"))

\* subscribe(client, root, SUBSCRIPTIONS[s], callback) up to its await: the
\* watch-project command for its path is issued.  start() calls it for the
\* graph subscription, then for the frontend one, without awaiting either.
SubscribeBoth ==
  /\ sub' = [s \in SUBSCRIPTIONS |-> "WatchPending"]
  /\ watchRequests' =
       watchProject(watchProject(watchRequests, WatchPath("graph")),
                    WatchPath("frontend"))

\* Faulty variant of CompileSettles: the catch block rethrows the error of exec.
CompileSettlesRethrows(code) == IF code = "0" THEN "resolved" ELSE "rejected"

\* How the promise of compileRelayGeneratedArtifacts() settles: a failing
\* exec is caught, its stdout (always a string) logged, nothing rethrown.
CompileSettles(code) == "resolved"

\* What compileRelayGeneratedArtifacts() logs once exec has settled: the
\* lines of stdout from the fifth to the last but one, at info level when
\* exec resolved, at error level when it rejected (error.code is then a
\* non-zero number, null or a string, never 0).
CompileLog(code, stdout) ==
  IF code = "0" THEN LogLines("info", stdout)
  ELSE IF code # "0" THEN LogLines("error", stdout) ELSE << >>

\* exec settles in run i with exit code `code` and captured `stdout`;
\* compileRelayGeneratedArtifacts() ends and with it the run.  When the run
\* is the initial one, start() goes on to set up the subscriptions.
ExecSettles(i, code, stdout) ==
  /\ ~exited
  /\ runs[i].pc = "exec"
  /\ runs' = Remove(runs, i)
  /\ last' = [op |-> "compile", who |-> runs[i].trigger,
              outcome |-> IF code = "0" THEN "ok" ELSE "failed",
              returned |-> CompileSettles(code),
              log |-> CompileLog(code, stdout), arg |-> stdout]
  /\ IF runs[i].trigger = "init" /\ CompileSettles(code) = "resolved"
     THEN /\ SubscribeBoth
          /\ phase' = "subscribed"
          /\ UNCHANGED << project, requests, listeners >>
     ELSE UNCHANGED << phase, subVars >>
  /\ UNCHANGED << procVars, conn, endCalls, file, started, eventVars, calls, component >>

\* Faulty variant of watchProjectFails: it ends the client as checkCapability does.
watchProjectFailsEndsClient ==
  /\ conn' = "closed"
  /\ endCalls' = endCalls + 1
  /\ Exit(1, "watch")

\* Faulty variant of watchProjectFails: process.exit(1) is left out.
watchProjectFailsNoExit ==
  UNCHANGED << procVars, runs, conn, endCalls >>

\* watchProject's error branch: logger.error(error); process.exit(1).  The
\* client is not ended.
watchProjectFails ==
  /\ Exit(1, "watch")
  /\ UNCHANGED << conn, endCalls >>

\* What watchProject logs on the answer to its command.
WatchLog(answer) ==
  IF answer = "error"
  THEN << [level |-> "error", msg |-> "watch"] >>
  ELSE IF answer = "warning"
  THEN << [level |-> "warn", msg |-> "warning"],
          [level |-> "info", msg |-> "established"] >>
  ELSE << [level |-> "info", msg |-> "established"] >>

\* Faulty variant of WatchResponds: the frontend setup goes on only once the graph subscription is Active.
WatchRespondsGraphFirst(s, answer) ==
  /\ ~exited
  /\ sub[s] = "WatchPending"
  /\ s = "frontend" => sub["graph"] = "Active"
  /\ IF answer = "error"
     THEN /\ watchProjectFails
          /\ sub' = [sub EXCEPT ![s] = "Failed"]
          /\ UNCHANGED << project, requests >>
     ELSE /\ sub' = [sub EXCEPT ![s] = "ClockPending"]
          /\ project' = [project EXCEPT ![s] = WatchResponse(s)]
          /\ requests' = [requests EXCEPT ![s].clock = @ + 1]
          /\ UNCHANGED << procVars, runs, conn, endCalls >>
  /\ last' = [op |-> "watch", who |-> s, outcome |-> answer,
              returned |-> IF answer = "error" THEN "exit" ELSE "resolved",
              log |-> WatchLog(answer),
              arg |-> IF answer = "error"
                      THEN [k \in DOMAIN runs |-> runs[k].pc] ELSE << >>]
  /\ UNCHANGED << phase, watchRequests, listeners, file, started, eventVars,
                  calls, component >>

\* The answer to the watch-project command of subscription s.  An error is
\* logged and the process exits with status 1 (the connection is not
\* ended).  Otherwise the promise resolves and subscribe() issues the clock
\* command in the same turn.
WatchResponds(s, answer) ==
  /\ ~exited
  /\ sub[s] = "WatchPending"
  /\ IF answer = "error"
     THEN /\ watchProjectFails
          /\ sub' = [sub EXCEPT ![s] = "Failed"]
          /\ UNCHANGED << project, requests >>
     ELSE /\ sub' = [sub EXCEPT ![s] = "ClockPending"]
          /\ project' = [project EXCEPT ![s] = WatchResponse(s)]
          /\ requests' = [requests EXCEPT ![s].clock = @ + 1]
          /\ UNCHANGED << procVars, runs, conn, endCalls >>
  /\ last' = [op |-> "watch", who |-> s, outcome |-> answer,
              returned |-> IF answer = "error" THEN "exit" ELSE "resolved",
              log |-> WatchLog(answer),
              arg |-> IF answer = "error"
                      THEN [k \in DOMAIN runs |-> runs[k].pc] ELSE << >>]
  /\ UNCHANGED << phase, watchRequests, listeners, file, started, eventVars,
                  calls, component >>

\* What the logger's Console transport (handleExceptions: true) writes for
\* an exception nothing catches, before it ends the process with status 1.
UncaughtLog == << [level |-> "error", msg |-> "uncaughtException"] >>

\* Faulty variant of ClockThrows: the callback gets a response object next to the
\* error, so its parameter list binds and its body runs.
ClockThrowsNever(answer) == FALSE

\* The parameter list of the clock callback, `(error, { clock: since })`:
\* the client calls the callback with the error alone when the command
\* failed, and destructuring the missing response throws a TypeError
\* before the body runs.
ClockThrows(answer) == answer = "error"

\* The answer to the clock command of subscription s.  On an error the
\* callback throws in its parameter list: nothing catches it, the logger
\* reports the uncaught exception and the process ends.  Otherwise the body
\* runs: it logs an error if there is one and issues the subscribe command
\* in either case.
ClockResponds(s, answer) ==
  /\ ~exited
  /\ sub[s] = "ClockPending"
  /\ IF ClockThrows(answer)
     THEN /\ Exit(1, "uncaught")
          /\ sub' = [sub EXCEPT ![s] = "Failed"]
          /\ UNCHANGED << requests >>
     ELSE /\ sub' = [sub EXCEPT ![s] = "SubscribePending"]
          /\ requests' = [requests EXCEPT ![s].subscribe = @ + 1]
          /\ UNCHANGED << procVars, runs >>
  /\ last' = [op |-> "clock", who |-> s, outcome |-> answer,
              returned |-> IF ClockThrows(answer) THEN "thrown" ELSE "none",
              log |-> IF ClockThrows(answer) THEN UncaughtLog
                      ELSE IF answer = "error"
                      THEN << [level |-> "error", msg |-> "clock"] >>
                      ELSE << >>,
              arg |-> IF ClockThrows(answer) THEN << >>
                      ELSE SubscribeCommand(s, IF answer = "error"
                                               THEN "undefined" ELSE Clock(s))]
  /\ UNCHANGED << phase, conn, endCalls, project, watchRequests, listeners, file,
                  started, eventVars, calls, component >>

\* `response.subscribe` in the body of the subscribe callback: the response
\* is missing when the command failed, and reading a property of undefined
\* throws a TypeError.
SubscribeThrows(answer) == answer = "error"

\* The answer to the subscribe command of subscription s.  An error is
\* logged, then reading `response.subscribe` of the missing response throws,
\* the logger reports the uncaught exception and the process ends.
\* Otherwise the listener is registered on the client.
SubscribeResponds(s, answer) ==
  /\ ~exited
  /\ sub[s] = "SubscribePending"
  /\ IF SubscribeThrows(answer)
     THEN /\ Exit(1, "uncaught")
          /\ sub' = [sub EXCEPT ![s] = "Failed"]
          /\ UNCHANGED << listeners >>
     ELSE /\ sub' = [sub EXCEPT ![s] = "Active"]
          /\ listeners' = Append(listeners, s)
          /\ UNCHANGED << procVars, runs >>
  /\ last' = [op |-> "subscribe", who |-> s, outcome |-> answer,
              returned |-> IF SubscribeThrows(answer) THEN "thrown" ELSE "none",
              log |-> IF answer = "error"
                      THEN << [level |-> "error", msg |-> "subscribe"] >>
                             \o (IF SubscribeThrows(answer)
                                 THEN UncaughtLog ELSE << >>)
                      ELSE << [level |-> "info", msg |-> "established"] >>,
              arg |-> << >>]
  /\ UNCHANGED << phase, conn, endCalls, project, watchRequests, requests, file,
                  started, eventVars, calls, component >>

\* ------------------------------------------------------------- dispatch
\* Faulty variant of Handler: both callbacks run the schema sync before the compiler.
HandlerSyncsAlways(s) == NewSync(s)

\* The callbacks start() passes to subscribe(): the graph one awaits the
\* schema sync, then the compiler; the frontend one only the compiler.
\* Each gives the run it starts.
Handler(s) ==
  IF s = "graph" THEN NewSync("graph") ELSE NewCompile("frontend")

\* Faulty variant of Listener: the comparison with subscriptionId is left out.
ListenerNoFilter(subscriptionId, event) ==
  << [handler |-> subscriptionId, files |-> event.files] >>

\* Faulty variant of Listener: the event is logged but callback(event) is left out.
ListenerSkipsCallback(subscriptionId, event) == << >>

\* The listener subscribe() registers for subscriptionId, given an event:
\* the callback invocations it makes.
Listener(subscriptionId, event) ==
  IF event.subscription # subscriptionId
  THEN << >>
  ELSE << [handler |-> subscriptionId, files |-> event.files] >>

\* client.emit('subscription', event): every listener, in registration order.
RECURSIVE Emit(_, _)
Emit(ls, event) ==
  IF ls = << >> THEN << >>
  ELSE Listener(Head(ls), event) \o Emit(Tail(ls), event)

\* How many of the runs rs were started by trigger t and are at one of pcs.
CountRuns(rs, t, pcs) ==
  Len(SelectSeq(rs, LAMBDA r : r.trigger = t /\ r.pc \in pcs))

\* How many of the callback invocations cbs are of the callback of t.
CountCallbacks(cbs, t) == Len(SelectSeq(cbs, LAMBDA c : c.handler = t))

\* Faulty variant of Deliver: the event is emitted only when no run is in flight.
DeliverExclusive(s, files) ==
  /\ ~exited
  /\ conn = "open"
  /\ sub[s] = "Active"
  /\ runs = << >>
  /\ delivered["graph"] + delivered["frontend"] < MaxBatches
  /\ LET event == [subscription |-> s, files |-> files]
         cbs == Emit(listeners, event)
         new == [k \in 1..Len(cbs) |-> Handler(cbs[k].handler)]
     IN  /\ runs' = runs \o new
         /\ started' =
              [t \in Triggers |->
                 [sync |-> started[t].sync + CountRuns(new, t, {"fetch"}),
                  compile |-> started[t].compile + CountRuns(new, t, {"exec"})]]
         /\ invoked' = [t \in SUBSCRIPTIONS |->
                          invoked[t] + CountCallbacks(cbs, t)]
         /\ last' = [op |-> "deliver", who |-> s, outcome |-> "event",
                     returned |-> "none", log |-> << >>,
                     arg |-> [event |-> event, callbacks |-> cbs,
                              after |-> [op |-> last.op,
                                         outcome |-> last.outcome]]]
  /\ delivered' = [delivered EXCEPT ![s] = @ + 1]
  /\ UNCHANGED << phase, procVars, conn, endCalls, subVars, file, calls, component >>

\* The service pushes a change-event batch for subscription s, which it has
\* established; the client emits it and the callbacks start their runs.
Deliver(s, files) ==
  /\ ~exited
  /\ conn = "open"
  /\ sub[s] = "Active"
  /\ delivered["graph"] + delivered["frontend"] < MaxBatches
  /\ LET event == [subscription |-> s, files |-> files]
         cbs == Emit(listeners, event)
         new == [k \in 1..Len(cbs) |-> Handler(cbs[k].handler)]
     IN  /\ runs' = runs \o new
         /\ started' =
              [t \in Triggers |->
                 [sync |-> started[t].sync + CountRuns(new, t, {"fetch"}),
                  compile |-> started[t].compile + CountRuns(new, t, {"exec"})]]
         /\ invoked' = [t \in SUBSCRIPTIONS |->
                          invoked[t] + CountCallbacks(cbs, t)]
         /\ last' = [op |-> "deliver", who |-> s, outcome |-> "event",
                     returned |-> "none", log |-> << >>,
                     arg |-> [event |-> event, callbacks |-> cbs,
                              after |-> [op |-> last.op,
                                         outcome |-> last.outcome]]]
  /\ delivered' = [delivered EXCEPT ![s] = @ + 1]
  /\ UNCHANGED << phase, procVars, conn, endCalls, subVars, file, calls, component >>

\* ---------------------------------------------------------------- start
\* Faulty variant of checkCapabilityFails: process.exit(1) is left out.
checkCapabilityFailsNoExit ==
  /\ conn' = "closed"
  /\ endCalls' = endCalls + 1
  /\ UNCHANGED << procVars, runs >>

\* checkCapability's error branch: logger.error(error); client.end();
\* process.exit(1).
checkCapabilityFails ==
  /\ conn' = "closed"
  /\ endCalls' = endCalls + 1
  /\ Exit(1, "capability")

\* Faulty variant of checkCapability: start() does not await the initial sync and
\* compile before it calls subscribe().
checkCapabilityNoAwait(answer) ==
  /\ ~exited
  /\ phase = "capability"
  /\ answer = "ok"
  /\ phase' = "initial"
  /\ runs' = << NewSync("init") >>
  /\ started' = [started EXCEPT !["init"].sync = @ + 1]
  /\ SubscribeBoth
  /\ last' = [op |-> "capability", who |-> "start", outcome |-> answer,
              returned |-> "resolved",
              log |-> << [level |-> "info", msg |-> "Starting"] >>,
              arg |-> << >>]
  /\ UNCHANGED << procVars, conn, endCalls, project, requests, listeners, file,
                  eventVars, calls, component >>

\* The answer to the capability check.  An error (a transport error, or a
\* required capability reported absent) is logged, the connection ended and
\* the process exits with status 1.  Otherwise start() logs the version and
\* calls syncGraphqlSchemaToDisk().
checkCapability(answer) ==
  /\ ~exited
  /\ phase = "capability"
  /\ IF answer = "error"
     THEN /\ checkCapabilityFails
          /\ UNCHANGED << phase, started >>
     ELSE /\ phase' = "initial"
          /\ runs' = << NewSync("init") >>
          /\ started' = [started EXCEPT !["init"].sync = @ + 1]
          /\ UNCHANGED << procVars, conn, endCalls >>
  /\ last' = [op |-> "capability", who |-> "start", outcome |-> answer,
              returned |-> IF answer = "error" THEN "exit" ELSE "resolved",
              log |-> IF answer = "error"
                      THEN << [level |-> "error", msg |-> "capability"] >>
                      ELSE << [level |-> "info", msg |-> "Starting"] >>,
              arg |-> << >>]
  /\ UNCHANGED << subVars, file, eventVars, calls, component >>

\* ----------------------------------------------------------------- next
Next ==
  \/ \E answer \in {"ok", "error"} : checkCapability(answer)
  \/ \E signal \in Signals : SignalHandler(signal)
  \/ \E i \in DOMAIN runs : FetchRejects(i)
  \/ \E i \in DOMAIN runs, ok \in BOOLEAN : FetchResponds(i, ok)
  \/ \E i \in DOMAIN runs : JsonRejects(i)
  \/ \E i \in DOMAIN runs, body \in Bodies : JsonResolves(i, body)
  \/ \E i \in DOMAIN runs : WriteOpens(i)
  \/ \E i \in DOMAIN runs : WriteOpenFails(i)
  \/ \E i \in DOMAIN runs, n \in 1..3 : WriteChunk(i, n)
  \/ \E i \in DOMAIN runs : WriteDone(i)
  \/ \E i \in DOMAIN runs, code \in ExitCodes, stdout \in Stdouts :
       ExecSettles(i, code, stdout)
  \/ \E s \in SUBSCRIPTIONS, answer \in {"ok", "warning", "error"} :
       WatchResponds(s, answer)
  \/ \E s \in SUBSCRIPTIONS, answer \in {"ok", "error"} : ClockResponds(s, answer)
  \/ \E s \in SUBSCRIPTIONS, answer \in {"ok", "error"} : SubscribeResponds(s, answer)
  \/ \E s \in SUBSCRIPTIONS, files \in FileLists : Deliver(s, files)

Spec == Init /\ [][Next]_vars

\* --------------------------------------------- watchProject on its own
\* A caller calls watchProject(client, path) for paths of its choosing, as
\* often as it likes, and awaits each promise.  A call is recorded with the
\* serial number of the command it issued and with what its promise
\* resolved to: the response object of that command.
CallWatch(path) ==
  /\ ~exited
  /\ Len(calls) < MaxCalls
  /\ watchRequests' = watchProject(watchRequests, path)
  /\ calls' = Append(calls,
                [path |-> path, state |-> "pending",
                 command |-> watchRequests'[WatchPath("graph")]
                               + watchRequests'[WatchPath("frontend")],
                 root |-> "none"])
  /\ UNCHANGED << phase, procVars, conn, endCalls, sub, project, requests, listeners,
                  runs, file, started, eventVars, last, component >>

\* The answer to the watch-project command of call k: an error ends the
\* process, anything else resolves the promise with the response.
WatchAnswers(k, answer) ==
  /\ ~exited
  /\ calls[k].state = "pending"
  /\ IF answer = "error"
     THEN /\ watchProjectFails
          /\ calls' = [calls EXCEPT ![k].state = "lost"]
     ELSE /\ calls' = [calls EXCEPT
                         ![k].state = "resolved",
                         ![k].root = [watch |-> "root",
                                      relative_path |-> calls[k].path[2],
                                      response |-> calls[k].command]]
          /\ UNCHANGED << procVars, runs, conn, endCalls >>
  /\ last' = [op |-> "watch", who |-> "caller", outcome |-> answer,
              returned |-> IF answer = "error" THEN "exit" ELSE "resolved",
              log |-> WatchLog(answer), arg |-> << >>]
  /\ UNCHANGED << phase, sub, project, watchRequests, requests, listeners, file,
                  started, eventVars, component >>

NextWatch ==
  \/ \E path \in Paths : CallWatch(path)
  \/ \E k \in DOMAIN calls, answer \in {"ok", "warning", "error"} :
       WatchAnswers(k, answer)

SpecWatch == Init /\ [][NextWatch]_vars

\* ------------------------------- compileRelayGeneratedArtifacts on its own
\* The characters of a captured stdout, and the stdouts of up to n of them.
StdoutChars == {"a", "b", "\n"}

StdoutsUpTo(n) == UNION { [1..k -> StdoutChars] : k \in 0..n }

\* start() has awaited the initial sync, which failed at the network, and
\* has called compileRelayGeneratedArtifacts(): the subprocess runs and
\* will end with the exit code and the stdout recorded in `calls`.
InitCompile ==
  /\ phase = "initial"
  /\ exited = FALSE
  /\ exitCode = 0
  /\ exitCause = "none"
  /\ conn = "open"
  /\ endCalls = 0
  /\ sub = [s \in SUBSCRIPTIONS |-> "Unestablished"]
  /\ project = [s \in SUBSCRIPTIONS |-> NoProject]
  /\ watchRequests = [p \in Paths |-> 0]
  /\ requests = [s \in SUBSCRIPTIONS |-> [clock |-> 0, subscribe |-> 0]]
  /\ listeners = << >>
  /\ runs = << [NewCompile("init") EXCEPT !.synced = TRUE] >>
  /\ file = InitialSnapshot
  /\ started = [t \in Triggers |->
                  IF t = "init" THEN [sync |-> 1, compile |-> 1]
                  ELSE [sync |-> 0, compile |-> 0]]
  /\ delivered = [s \in SUBSCRIPTIONS |-> 0]
  /\ invoked = [s \in SUBSCRIPTIONS |-> 0]
  /\ last = [op |-> "sync", who |-> "init", outcome |-> "network",
             returned |-> "undefined", log |-> SyncLog("network"),
             arg |-> [body |-> NoBody, file |-> Written(NewSync("init"))]]
  /\ \E code \in ExitCodes, stdout \in StdoutsUpTo(MaxStdout) :
       calls = << [code |-> code, stdout |-> stdout] >>
  /\ component = NewComponent

\* The subprocess ends as recorded and exec settles.
ExecSettlesAsRecorded ==
  /\ calls # << >>
  /\ \E i \in DOMAIN runs : ExecSettles(i, calls[1].code, calls[1].stdout)

NextCompile == ExecSettlesAsRecorded

SpecCompile == InitCompile /\ [][NextCompile]_vars

\* ----------------------------------- the graph callback, one run at a time
\* Both subscriptions are Active after a start whose initial run has ended;
\* nothing is in flight.
InitSync ==
  /\ phase = "subscribed"
  /\ exited = FALSE
  /\ exitCode = 0
  /\ exitCause = "none"
  /\ conn = "open"
  /\ endCalls = 0
  /\ sub = [s \in SUBSCRIPTIONS |-> "Active"]
  /\ project = [s \in SUBSCRIPTIONS |-> WatchResponse(s)]
  /\ watchRequests = [p \in Paths |-> 1]
  /\ requests = [s \in SUBSCRIPTIONS |-> [clock |-> 1, subscribe |-> 1]]
  /\ listeners = << "graph", "frontend" >>
  /\ runs = << >>
  /\ file = InitialSnapshot
  /\ started = [t \in Triggers |->
                  IF t = "init" THEN [sync |-> 1, compile |-> 1]
                  ELSE [sync |-> 0, compile |-> 0]]
  /\ delivered = [s \in SUBSCRIPTIONS |-> 0]
  /\ invoked = [s \in SUBSCRIPTIONS |-> 0]
  /\ last = [op |-> "subscribe", who |-> "frontend", outcome |-> "ok",
             returned |-> "none",
             log |-> << [level |-> "info", msg |-> "established"] >>,
             arg |-> << >>]
  /\ calls = << >>
  /\ component = NewComponent

\* A batch for the graph subscription arrives when no run is in flight.
DeliverInTurn(files) ==
  /\ runs = << >>
  /\ Deliver("graph", files)

\* The sync of the run in flight has ended: how it ended, the data it gave
\* writeFile and what SCHEMA_PATH holds now are recorded in `calls`.
SyncObserved ==
  /\ ~exited
  /\ Len(calls) < delivered["graph"]
  /\ last.op = "sync"
  /\ \E i \in DOMAIN runs : runs[i].pc = "exec" /\ runs[i].synced
  /\ calls' = Append(calls, [outcome |-> last.outcome,
                             data |-> last.arg.file.data,
                             file |-> file])
  /\ UNCHANGED << phase, procVars, conn, endCalls, subVars, runs, file,
                  started, eventVars, last, component >>

\* The compiler run of the run in flight ends, its sync recorded.
ExecSettlesInTurn(i, code, stdout) ==
  /\ Len(calls) = delivered["graph"]
  /\ ExecSettles(i, code, stdout)

NextSync ==
  \/ \E files \in FileLists : DeliverInTurn(files)
  \/ \E i \in DOMAIN runs : FetchRejects(i)
  \/ \E i \in DOMAIN runs, ok \in BOOLEAN : FetchResponds(i, ok)
  \/ \E i \in DOMAIN runs : JsonRejects(i)
  \/ \E i \in DOMAIN runs, body \in Bodies : JsonResolves(i, body)
  \/ \E i \in DOMAIN runs : WriteOpens(i)
  \/ \E i \in DOMAIN runs : WriteOpenFails(i)
  \/ \E i \in DOMAIN runs, n \in 1..3 : WriteChunk(i, n)
  \/ \E i \in DOMAIN runs : WriteDone(i)
  \/ SyncObserved
  \/ \E i \in DOMAIN runs, code \in ExitCodes, stdout \in Stdouts :
       ExecSettlesInTurn(i, code, stdout)

SpecSync == InitSync /\ [][NextSync]_vars


\* ===================================================== TwoFactorConfigure
\* this.setState(partial): the members of partial replace those of state.
\* React ignores setState on a component that is not mounted.
setState(c, partial) ==
  IF c.mounted = "yes" THEN [c EXCEPT !.state = partial @@ @] ELSE c

\* commitMutation(environment, { mutation, variables: { input } }): the
\* mutation is sent; one given callbacks waits for its answer.
commitMutation(c, mutation, input, callbacks) ==
  LET m == [mutation |-> mutation, input |-> input]
  IN  [c EXCEPT !.committed = Append(@, m),
                !.inflight = IF callbacks THEN Append(@, m) ELSE @]

\* Which branch renderCurrentStatus() takes: the activation form is on the
\* page in the second one only.
renderCurrentStatus(state) ==
  IF state.generatingTOTP THEN "generating"
  ELSE IF state.generatedTOTP /\ ~state.activatedTOTP THEN "form"
  ELSE IF state.activatedTOTP THEN "done"
  ELSE "nothing"

\* The mutations of kind `mutation` committed so far.
Committed(mutation) ==
  SelectSeq(component.committed, LAMBDA m : m.mutation = mutation)

\* React mounts the instance: the create mutation is committed at once.
componentDidMount ==
  /\ component.mounted = "no"
  /\ component' =
       commitMutation([component EXCEPT !.mounted = "yes"], "totpCreate",
                      [id |-> "none", token |-> "none"], TRUE)
  /\ UNCHANGED watcherVars

\* Faulty variant of componentWillUnmount: only generatedTOTP is tested.
componentWillUnmountOnGenerated ==
  /\ component.mounted = "yes"
  /\ ~component.reloaded
  /\ LET c == [component EXCEPT !.mounted = "unmounted",
                                !.completedAtUnmount = component.completed]
     IN  component' =
           IF c.state.generatedTOTP
           THEN commitMutation(c, "totpDelete",
                               [id |-> c.state.totpId, token |-> "none"], FALSE)
           ELSE c
  /\ UNCHANGED watcherVars

\* React unmounts the instance: the delete mutation is committed, without
\* callbacks, if totpId is set, generatedTOTP holds and activatedTOTP does
\* not.
componentWillUnmount ==
  /\ component.mounted = "yes"
  /\ ~component.reloaded
  /\ LET c == [component EXCEPT !.mounted = "unmounted",
                                !.completedAtUnmount = component.completed]
     IN  component' =
           IF Truthy(c.state.totpId) /\ c.state.generatedTOTP
                /\ ~c.state.activatedTOTP
           THEN commitMutation(c, "totpDelete",
                               [id |-> c.state.totpId, token |-> "none"], FALSE)
           ELSE c
  /\ UNCHANGED watcherVars

\* The user types into the code field of the activation form.
handleCodeChange(token) ==
  /\ component.mounted = "yes"
  /\ ~component.reloaded
  /\ renderCurrentStatus(component.state) = "form"
  /\ component.state.totpToken # token
  /\ component' = setState(component, [totpToken |-> token])
  /\ UNCHANGED watcherVars

\* onCompleted of the create mutation.
handleCreateMutationComplete(c, mutationResult) ==
  setState(c, [generatingTOTP |-> FALSE, generatedTOTP |-> TRUE,
               totpId |-> mutationResult.totp.id,
               provisioningUri |-> mutationResult.provisioningUri])

\* onError of the create and of the activate mutation: an escalation error
\* reloads the page, which ends the instance and everything waiting;
\* any other error is shown in an alert.
handleMutationError(c, type) ==
  IF type = "ESCALATION_ERROR"
  THEN [c EXCEPT !.reloaded = TRUE, !.inflight = << >>]
  ELSE c

\* The user submits the activation form: activatingTOTP is set and, once
\* the state is updated, the activate mutation is committed with the id
\* and the token in the state.
handleActivateSubmit ==
  /\ component.mounted = "yes"
  /\ ~component.reloaded
  /\ renderCurrentStatus(component.state) = "form"
  /\ Len(Committed("totpActivate")) < MaxSubmits
  /\ LET c == setState(component, [activatingTOTP |-> TRUE])
     IN  component' =
           commitMutation(c, "totpActivate",
                          [id |-> c.state.totpId, token |-> c.state.totpToken],
                          TRUE)
  /\ UNCHANGED watcherVars

\* onCompleted of the activate mutation.
handleActivateMutationComplete(c) ==
  setState(c, [activatingTOTP |-> FALSE, activatedTOTP |-> TRUE,
               totpId |-> "null", provisioningUri |-> "null"])

\* The answer to the mutation k of inflight arrives, mounted or not: a
\* result calls its onCompleted, an error its onError.
MutationCompletes(k, id) ==
  /\ ~component.reloaded
  /\ k \in DOMAIN component.inflight
  /\ LET m == component.inflight[k]
         c == [component EXCEPT !.inflight = Remove(@, k),
                                !.completed = @ \cup {m.mutation}]
     IN  component' =
           IF m.mutation = "totpCreate"
           THEN handleCreateMutationComplete(
                  c, [totp |-> [id |-> id], provisioningUri |-> "uri"])
           ELSE handleActivateMutationComplete(c)
  /\ UNCHANGED watcherVars

\* The mutation k of inflight fails: its onError is called with the error.
MutationFails(k, type) ==
  /\ ~component.reloaded
  /\ k \in DOMAIN component.inflight
  /\ component' =
       handleMutationError([component EXCEPT !.inflight = Remove(@, k)], type)
  /\ UNCHANGED watcherVars

NextConfigure ==
  \/ componentDidMount
  \/ componentWillUnmount
  \/ \E token \in Tokens : handleCodeChange(token)
  \/ handleActivateSubmit
  \/ \E k \in DOMAIN component.inflight, id \in TotpIds :
       MutationCompletes(k, id)
  \/ \E k \in DOMAIN component.inflight, type \in ErrorTypes :
       MutationFails(k, type)

SpecConfigure == Init /\ [][NextConfigure]_vars

\* ================================================================ claims
SyncPcs == {"fetch", "json", "open", "write"}

InSync(t) == CountRuns(runs, t, SyncPcs)

\* C1: a batch for the graph subscription starts syncGraphqlSchemaToDisk
\* and, only once that has ended, compileRelayGeneratedArtifacts; a batch
\* for the frontend subscription starts the compiler alone, never a sync.
\* Every run of the graph callback is in its sync until the sync has
\* ended and in the compiler after that; every callback invocation accounts
\* for one sync (graph) or one compiler run (frontend), and the compiler
\* runs the graph callback has started are as many as its syncs that ended.
C1_HandlerPipeline ==
  /\ \A i \in DOMAIN runs :
       /\ runs[i].trigger = "graph" =>
            /\ runs[i].pc \in SyncPcs => ~runs[i].synced
            /\ runs[i].pc = "exec" => runs[i].synced
            /\ runs[i].pc \in SyncPcs \cup {"exec"}
       /\ runs[i].trigger = "frontend" =>
            runs[i].pc = "exec" /\ ~runs[i].synced
  /\ started["graph"].sync = invoked["graph"]
  /\ started["graph"].compile <= started["graph"].sync
  /\ ~exited =>
       started["graph"].compile = started["graph"].sync - InSync("graph")
  /\ started["frontend"].sync = 0
  /\ started["frontend"].compile = invoked["frontend"]

\* A graph run whose sync has ended and whose compiler runs, next to a
\* frontend batch that has been handled.
C1_Witness ==
  /\ \E i \in DOMAIN runs :
       runs[i].trigger = "graph" /\ runs[i].synced /\ runs[i].pc = "exec"
  /\ invoked["frontend"] > 0

\* C2: every event whose subscription field is A's id invokes A's callback
\* exactly once, with the event's file list in its order, and never the
\* callback of the other subscription: the callbacks made for the event
\* delivered last are that one invocation, and the invocations of each
\* callback are as many as the batches pushed under its id.
C2_ExactRouting ==
  /\ \A s \in SUBSCRIPTIONS : invoked[s] = delivered[s]
  /\ last.op = "deliver" =>
       last.arg.callbacks =
         << [handler |-> last.arg.event.subscription,
             files |-> last.arg.event.files] >>

\* Both subscriptions are Active, a batch has been pushed for each.
C2_Witness ==
  /\ \A s \in SUBSCRIPTIONS : sub[s] = "Active" /\ delivered[s] >= 1
  /\ last.op = "deliver"

Issued ==
  \/ \E p \in Paths : watchRequests[p] > 0
  \/ \E s \in SUBSCRIPTIONS :
       \/ requests[s].clock > 0
       \/ requests[s].subscribe > 0
       \/ sub[s] # "Unestablished"
  \/ listeners # << >>

\* C3: once the capability check has succeeded, the initial schema sync
\* and the initial compiler run each execute once, and both have ended
\* before any watch-project, clock or subscribe command is issued and
\* before any subscription is Active.
C3_InitialRunFirst ==
  /\ started["init"].sync <= 1
  /\ started["init"].compile <= 1
  /\ phase # "capability" => started["init"].sync = 1
  /\ Issued =>
       /\ phase = "subscribed"
       /\ started["init"] = [sync |-> 1, compile |-> 1]
       /\ \A i \in DOMAIN runs : runs[i].trigger # "init"

\* A subscription is Active, after the one initial sync and compile.
C3_Witness ==
  /\ sub["graph"] = "Active"
  /\ started["init"] = [sync |-> 1, compile |-> 1]

\* C4: when the capability check reports an error, the process exits with
\* a non-zero status, and no schema sync, no compiler run, no watch-project
\* command and no subscribe command is issued in that execution.
C4_CapabilityFatal ==
  (\/ last.op = "capability" /\ last.outcome = "error"
   \/ exitCause = "capability") =>
    /\ exited
    /\ exitCode # 0
    /\ exitCause = "capability"
    /\ \A t \in Triggers : started[t] = [sync |-> 0, compile |-> 0]
    /\ ~Issued
    /\ runs = << >>

\* The capability check has failed.
C4_Witness ==
  /\ last.op = "capability" /\ last.outcome = "error"
  /\ exitCause = "capability"


\* The texts a completed writeFile can leave behind.
Snapshots == {InitialSnapshot} \cup {JSONStringify(d) : d \in DataValues}

\* C5 as stated: a sync that ends on a body with an `errors` member has
\* returned an error result to its caller and has left the snapshot as it
\* was (it started no writeFile).
C5_Original ==
  (last.op = "sync" /\ last.arg.body.errors # "undefined") =>
    /\ last.returned = "error"
    /\ ~last.arg.file.opened

\* C5 as amended: when the body's `errors` member is truthy (a list),
\* syncGraphqlSchemaToDisk logs it at error level and resolves with
\* undefined as it does on success, no error reaching its caller; it has
\* not started writeFile, so it has left SCHEMA_PATH untouched.
C5_ErrorsContained ==
  /\ (last.op \in {"sync", "json"} /\ last.arg.body.errors = "list") =>
       /\ last.op = "sync"
       /\ last.outcome = "errors"
       /\ last.returned = "undefined"
       /\ last.log = << [level |-> "error", msg |-> "errors"] >>
       /\ ~last.arg.file.opened
  /\ (last.op = "sync" /\ last.outcome = "errors") =>
       last.arg.body.errors = "list"
  /\ last.op = "json" => last.arg.body.errors \in {"undefined", "null"}

\* A sync has ended on a body with `errors`, after an earlier sync wrote
\* the snapshot.
C5_Witness ==
  /\ last.op = "sync" /\ last.outcome = "errors"
  /\ file = JSONStringify("D1")

\* C6 as stated: in every reachable state SCHEMA_PATH holds its initial
\* content or the text of { data } of a response; and a sync that failed
\* at the network level, got a non-success status or got `errors` has not
\* written the file.
C6_SnapshotAlwaysWhole ==
  /\ file \in Snapshots
  /\ (last.op = "sync"
        /\ last.outcome \in {"network", "status", "invalid", "errors"}) =>
       ~last.arg.file.opened

\* C7: a failing compiler subprocess, with or without captured stdout, has
\* its trimmed stdout lines logged at error level and
\* compileRelayGeneratedArtifacts resolves; the process goes on: start()
\* sets up the subscriptions after a failing initial run, and a batch for
\* an Active subscription still invokes its callback.
C7_CompileFaultTolerance ==
  (last.op = "compile" /\ last.outcome = "failed") =>
    /\ last.returned = "resolved"
    /\ Len(last.log) = Len(Slice4(Split(last.arg)))
    /\ \A k \in DOMAIN last.log :
         /\ last.log[k].level = "error"
         /\ last.log[k].msg = Slice4(Split(last.arg))[k]
    /\ ~exited
    /\ conn = "open"
    /\ last.who = "init" =>
         phase = "subscribed" /\ \A s \in SUBSCRIPTIONS : sub[s] = "WatchPending"
    /\ \A s \in SUBSCRIPTIONS, files \in FileLists :
         sub[s] = "Active" =>
           Emit(listeners, [subscription |-> s, files |-> files])
             = << [handler |-> s, files |-> files] >>

\* The compiler has failed with captured stdout in a callback's run, both
\* subscriptions are Active and a further batch can arrive.
C7_Witness ==
  /\ last.op = "compile" /\ last.outcome = "failed" /\ last.who = "frontend"
  /\ Len(last.log) = 2
  /\ \A s \in SUBSCRIPTIONS : sub[s] = "Active"
  /\ delivered["graph"] + delivered["frontend"] < MaxBatches

\* C8: SIGINT or SIGTERM, in any state of the running process, logs the
\* shutdown, ends the client connection, logs the farewell and exits with
\* status 0; the connection is ended once in the whole execution.
C8_GracefulShutdown ==
  /\ ~exited => \A signal \in Signals : ENABLED SignalHandler(signal)
  /\ last.op = "signal" =>
       /\ last.who \in Signals
       /\ last.log = << [level |-> "warn", msg |-> "Received"],
                        [level |-> "info", msg |-> "Bye"] >>
       /\ conn = "closed"
       /\ endCalls = 1
       /\ exited /\ exitCode = 0 /\ exitCause = "signal"
  /\ exitCause = "signal" => last.op = "signal"
  /\ endCalls <= 1

\* A signal has arrived while a pipeline run was in flight and a
\* subscription Active.
C8_Witness ==
  /\ last.op = "signal" /\ last.arg # << >>
  /\ \E s \in SUBSCRIPTIONS : sub[s] = "Active"

\* C9 as stated: the connection is closed only by the signal handler, any
\* close is preceded by SIGINT or SIGTERM.
C9_Original ==
  (conn = "closed" \/ endCalls > 0) => exitCause = "signal"

\* C9 as amended: the connection is closed only by the signal handler and
\* by the capability check when it fails, each right before the process
\* exits; watchProject, subscribe and the pipeline steps never close it,
\* not even when they end the process.
C9_ClosedBySignalOrProbe ==
  /\ conn = "closed" <=> endCalls > 0
  /\ endCalls > 0 => exited /\ exitCause \in {"signal", "capability"}
  /\ exitCause \in {"watch", "uncaught"} => conn = "open"
  /\ ~exited => conn = "open"

\* The capability check has failed and closed the connection, no signal
\* having arrived.
C9_Witness ==
  /\ conn = "closed"
  /\ exitCause = "capability"
  /\ last.op = "capability"

CallsFor(path) == Len(SelectSeq(calls, LAMBDA c : c.path = path))

\* C10 as stated: calling watch(p) twice returns the identical WatchRoot
\* and issues one watch-project command for p.
C10_Original ==
  /\ \A p \in Paths : watchRequests[p] <= 1
  /\ \A j, k \in DOMAIN calls :
       (calls[j].path = calls[k].path /\ calls[j].state = "resolved"
          /\ calls[k].state = "resolved") => calls[j].root = calls[k].root

\* C10 as amended: watchProject keeps no cache.  Every call issues its own
\* watch-project command, so the commands issued for p are as many as the
\* calls for p, and each call resolves with the response object of its own
\* command: two calls for one path get two responses.
C10_WatchPerCall ==
  /\ \A p \in Paths : watchRequests[p] = CallsFor(p)
  /\ \A k \in DOMAIN calls :
       calls[k].state = "resolved" => calls[k].root.response = calls[k].command
  /\ \A j, k \in DOMAIN calls :
       (j # k /\ calls[j].state = "resolved" /\ calls[k].state = "resolved")
         => calls[j].root # calls[k].root

\* Two calls for the same path have resolved.
C10_Witness ==
  \E j, k \in DOMAIN calls :
    /\ j # k
    /\ calls[j].path = calls[k].path
    /\ calls[j].state = "resolved" /\ calls[k].state = "resolved"

\* C11: when the watch-project command of a subscription reports an error,
\* the process exits with a non-zero status, and no clock command, no
\* subscribe command and no listener is ever made for that subscription;
\* this is so also when the other subscription is Active and a pipeline run
\* is in flight.
C11_WatchFatal ==
  /\ (last.op = "watch" /\ last.outcome = "error") =>
       /\ exited /\ exitCode # 0 /\ exitCause = "watch"
       /\ runs = << >>
       /\ sub[last.who] = "Failed"
       /\ requests[last.who] = [clock |-> 0, subscribe |-> 0]
       /\ \A k \in DOMAIN listeners : listeners[k] # last.who
       /\ invoked[last.who] = 0
       /\ \A answer \in {"ok", "warning", "error"} :
            ~ENABLED WatchResponds(last.who, answer)
       /\ \A answer \in {"ok", "error"} :
            /\ ~ENABLED ClockResponds(last.who, answer)
            /\ ~ENABLED SubscribeResponds(last.who, answer)
  /\ exitCause = "watch" => last.op = "watch" /\ last.outcome = "error"

\* The watch-project command of one subscription has failed while the other
\* subscription was Active and a pipeline run in flight.
C11_Witness ==
  /\ last.op = "watch" /\ last.outcome = "error"
  /\ \E s \in SUBSCRIPTIONS : sub[s] = "Active"
  /\ last.arg # << >>

\* C12 as stated: the process ends abnormally (a non-zero exit status or an
\* uncaught exception) only on a failed capability check or a failed
\* watch-project command; an error of a clock command, a subscribe command,
\* a schema sync or a compiler run leaves the process running.
C12_OnlyCapabilityOrWatchFatal ==
  /\ (exited /\ exitCode # 0) => exitCause \in {"capability", "watch"}
  /\ exitCause # "uncaught"
  /\ (last.op \in {"clock", "subscribe"} /\ last.outcome = "error") => ~exited
  /\ (last.op = "sync" /\ last.outcome # "written") => ~exited
  /\ (last.op = "compile" /\ last.outcome = "failed") => ~exited

\* C13: when the clock command or the subscribe command of subscription S
\* reports an error, S is Failed and inactive from then on: after a clock
\* error no subscribe command is issued for S, after either error no
\* listener is registered for S and S's callback is never invoked, and no
\* clock or subscribe command for S is issued again.
C13_FailedStaysInactive ==
  /\ (last.op = "clock" /\ last.outcome = "error") =>
       /\ sub[last.who] = "Failed"
       /\ requests[last.who] = [clock |-> 1, subscribe |-> 0]
  /\ (last.op = "subscribe" /\ last.outcome = "error") =>
       /\ sub[last.who] = "Failed"
       /\ requests[last.who] = [clock |-> 1, subscribe |-> 1]
  /\ \A s \in SUBSCRIPTIONS :
       (sub[s] = "Failed" /\ exitCause # "watch") =>
         /\ \A k \in DOMAIN listeners : listeners[k] # s
         /\ invoked[s] = 0
         /\ delivered[s] = 0
         /\ \A answer \in {"ok", "error"} :
              /\ ~ENABLED ClockResponds(s, answer)
              /\ ~ENABLED SubscribeResponds(s, answer)
         /\ \A files \in FileLists : ~ENABLED Deliver(s, files)

\* The clock command of one subscription has failed while the other
\* subscription was Active.
C13_Witness ==
  /\ last.op = "clock" /\ last.outcome = "error"
  /\ \E s \in SUBSCRIPTIONS : sub[s] = "Active"

\* C14: a failed pipeline run (a failing sync or compiler run, in start()
\* or in a callback) never prevents a later run.  After a failure the
\* process runs on and a batch for an Active subscription can still be
\* delivered; the run a batch starts is a fresh one, with its own new POST
\* (graph) or its own new subprocess (frontend), counted as started, and
\* every outcome is open to it whatever finished before.
C14_FailureDoesNotPreventLaterRun ==
  /\ ( \/ last.op = "sync" /\ last.outcome # "written"
       \/ last.op = "compile" /\ last.outcome = "failed" ) =>
       /\ ~exited
       /\ \A s \in SUBSCRIPTIONS, files \in FileLists :
            (sub[s] = "Active"
               /\ delivered["graph"] + delivered["frontend"] < MaxBatches)
              => ENABLED Deliver(s, files)
  /\ last.op = "deliver" =>
       /\ runs # << >>
       /\ runs[Len(runs)] =
            [trigger |-> last.who,
             pc |-> IF last.who = "graph" THEN "fetch" ELSE "exec",
             data |-> "undefined", pos |-> 0, synced |-> FALSE,
             alone |-> TRUE]
       /\ started["graph"].sync = invoked["graph"]
       /\ started["frontend"].compile = invoked["frontend"]
       /\ last.who = "graph" =>
            /\ ENABLED FetchRejects(Len(runs))
            /\ \A ok \in BOOLEAN : ENABLED FetchResponds(Len(runs), ok)
       /\ last.who = "frontend" =>
            \A code \in ExitCodes : ENABLED ExecSettles(Len(runs), code, << >>)

\* A batch for the graph subscription has started a run right after the
\* sync of an earlier batch failed.
C14_Witness ==
  /\ last.op = "deliver" /\ last.who = "graph"
  /\ last.arg.after.op = "sync"
  /\ last.arg.after.outcome \in {"network", "status", "invalid", "errors"}
  /\ delivered["graph"] = 2
  /\ runs[Len(runs)].pc = "fetch"

\* C15 as stated: every error outcome has at least one error-level log
\* entry by the time the failing operation ends: a failing capability
\* check, watch-project, clock or subscribe command, a sync that met a
\* network failure, a non-success status or `errors`, and a failing
\* compiler run, whatever its captured stdout.
C15_EveryErrorLogged ==
  ( \/ /\ last.op \in {"capability", "watch", "clock", "subscribe"}
        /\ last.outcome = "error"
    \/ /\ last.op = "sync"
        /\ last.outcome \in {"network", "status", "errors"}
    \/ /\ last.op = "compile"
        /\ last.outcome = "failed" )
  => \E k \in DOMAIN last.log : last.log[k].level = "error"

\* C16: for a captured stdout that splits on newline into the lines
\* l1..ln (n is one more than the number of newlines),
\* compileRelayGeneratedArtifacts logs exactly l5..l(n-1), in order and each
\* once, at info level when exec resolved and at error level when it
\* rejected; for n <= 5 it logs no line.
C16_LoggedLines ==
  last.op = "compile" =>
    LET lines == Split(last.arg)
        n == Len(lines)
    IN  /\ n = 1 + Cardinality({i \in DOMAIN last.arg : last.arg[i] = "\n"})
        /\ \A k \in 1..n : \A j \in DOMAIN lines[k] : lines[k][j] # "\n"
        /\ Len(last.log) = IF n <= 5 THEN 0 ELSE n - 5
        /\ \A k \in DOMAIN last.log :
             /\ last.log[k].msg = lines[k + 4]
             /\ last.log[k].level =
                  IF last.outcome = "ok" THEN "info" ELSE "error"

\* A failing compiler run whose stdout has seven lines: the fifth and the
\* sixth, which differ, are logged.
C16_Witness ==
  /\ last.op = "compile" /\ last.outcome = "failed"
  /\ Len(Split(last.arg)) = 7
  /\ Len(last.log) = 2
  /\ last.log[1].msg # last.log[2].msg

\* C17: when the endpoint answers with a success status and a body
\* { data: d } without `errors`, syncGraphqlSchemaToDisk resolves, logging
\* the sync at info level, and once it has ended, no other sync having had
\* the file open during its write or having it open now, SCHEMA_PATH holds
\* exactly the text of { data: d }: the data member alone, nothing of the
\* response's other members and nothing of the prior content.
C17_SuccessWritesData ==
  /\ (last.op = "sync" /\ last.outcome = "written") =>
       /\ last.returned = "undefined"
       /\ last.log = << [level |-> "info", msg |-> "Synced"] >>
       /\ last.arg.file.opened
       /\ (last.arg.file.alone /\ \A i \in DOMAIN runs : runs[i].pc # "write")
            => file = IF last.arg.file.data = "undefined"
                      THEN << "{}" >>
                      ELSE << "{", last.arg.file.data, "}" >>
  /\ last.op = "json" =>
       \E i \in DOMAIN runs :
         /\ runs[i].trigger = last.who
         /\ runs[i].pc \in {"open", "write"}
         /\ runs[i].data = last.arg.body.data
  /\ (last.op = "sync" /\ last.arg.file.opened) =>
       last.outcome = "written"

\* A sync of the graph callback has written { data: D2 } over what an
\* earlier sync had written.
C17_Witness ==
  /\ last.op = "sync" /\ last.outcome = "written" /\ last.who = "graph"
  /\ last.arg.file.alone
  /\ last.arg.file.data = "D2"
  /\ file = << "{", "D2", "}" >>
  /\ delivered["graph"] = 2

\* C18: syncGraphqlSchemaToDisk is idempotent.  When it runs twice, one
\* call after the other, and the endpoint gives the same successful
\* response both times, SCHEMA_PATH holds after the second call what it
\* held after the first.
C18_SyncIdempotent ==
  \A k \in 2..Len(calls) :
    ( /\ calls[k - 1].outcome = "written"
      /\ calls[k].outcome = "written"
      /\ calls[k].data = calls[k - 1].data )
    => calls[k].file = calls[k - 1].file

\* Two syncs in a row have written the data D1.
C18_Witness ==
  /\ Len(calls) = 2
  /\ calls[1].outcome = "written" /\ calls[2].outcome = "written"
  /\ calls[1].data = "D1" /\ calls[2].data = "D1"
  /\ file = calls[2].file

\* C19: a subscription moves only along Unestablished -> WatchPending ->
\* WatchEstablished -> ClockObtained -> SubscribePending -> Active, no
\* state skipped.  WatchEstablished is left in the turn that enters it, the
\* clock command being issued at once (state ClockPending here), and
\* ClockObtained likewise, the subscribe command being issued at once
\* (SubscribePending).  So the clock command is issued only after the watch
\* response, the subscribe command only after a successful clock response,
\* the listener is registered only after a successful subscribe response,
\* and once Active a subscription stays Active with exactly one listener.
\* The only other move is into Failed as the process ends.
C19_SubscriptionProgress ==
  /\ [](\A s \in SUBSCRIPTIONS :
         LET registered == Len(SelectSeq(listeners, LAMBDA x : x = s))
         IN  /\ sub[s] \in {"Unestablished", "WatchPending"} =>
                  requests[s] = [clock |-> 0, subscribe |-> 0] /\ registered = 0
             /\ sub[s] = "Unestablished" => watchRequests[WatchPath(s)] = 0
             /\ sub[s] # "Unestablished" => watchRequests[WatchPath(s)] = 1
             /\ sub[s] = "ClockPending" =>
                  requests[s] = [clock |-> 1, subscribe |-> 0] /\ registered = 0
             /\ sub[s] = "SubscribePending" =>
                  requests[s] = [clock |-> 1, subscribe |-> 1] /\ registered = 0
             /\ sub[s] = "Active" =>
                  requests[s] = [clock |-> 1, subscribe |-> 1] /\ registered = 1
             /\ sub[s] = "Failed" => exited /\ registered = 0)
  /\ [][\A s \in SUBSCRIPTIONS :
          /\ sub[s] = "Active" => sub'[s] = "Active"
          /\ sub'[s] # sub[s] =>
               \/ << sub[s], sub'[s] >> \in
                    { << "Unestablished", "WatchPending" >>,
                      << "WatchPending", "ClockPending" >>,
                      << "ClockPending", "SubscribePending" >>,
                      << "SubscribePending", "Active" >> }
               \/ sub'[s] = "Failed" /\ exited']_vars

\* Both subscriptions have gone all the way to Active and a batch has been
\* delivered since.
C19_Witness ==
  /\ \A s \in SUBSCRIPTIONS : sub[s] = "Active"
  /\ listeners \in { << "graph", "frontend" >>, << "frontend", "graph" >> }
  /\ delivered["graph"] + delivered["frontend"] > 0

\* How far the run r has come: the awaits of its callback that have
\* been resumed.
Stage(r) ==
  IF r.pc = "fetch" THEN 0
  ELSE IF r.pc = "json" THEN 1
  ELSE IF r.pc = "open" THEN 2
  ELSE IF r.pc = "write" THEN 3
  ELSE IF r.synced THEN 4 ELSE 0

\* C20 as stated: within one subscription batches are handled in arrival
\* order: the callback is invoked for an earlier batch before a later one,
\* and the pipeline steps of the earlier batch are handled before those of
\* the later one, so the run of a later batch is never further on than
\* the run of an earlier batch of the same subscription.
C20_Original ==
  /\ \A s \in SUBSCRIPTIONS : invoked[s] = delivered[s]
  /\ \A i, j \in DOMAIN runs :
       (i < j /\ runs[i].trigger = runs[j].trigger)
         => Stage(runs[j]) <= Stage(runs[i])

\* C20 as amended: within one subscription the callback is invoked for the
\* batches in their arrival order, each in the turn in which its batch
\* arrives: the n-th batch makes the n-th invocation, for that batch's
\* files, and its run starts behind the runs of every earlier batch.  The
\* pipeline steps of different batches are not ordered: the runs overlap
\* and each step is handled when its own I/O completes.
C20_HandlersInArrivalOrder ==
  /\ \A s \in SUBSCRIPTIONS : invoked[s] = delivered[s]
  /\ last.op = "deliver" =>
       /\ Len(last.arg.callbacks) = 1
       /\ last.arg.callbacks[1].handler = last.who
       /\ last.arg.callbacks[1].files = last.arg.event.files
       /\ runs # << >>
       /\ runs[Len(runs)].trigger = last.who
       /\ CountRuns(runs, last.who, SyncPcs \cup {"exec"})
            <= delivered[last.who]

\* The run of a later batch for the graph subscription is further on than
\* the run of an earlier one.
C20_Witness ==
  \E i, j \in DOMAIN runs :
    /\ i < j
    /\ runs[i].trigger = "graph" /\ runs[j].trigger = "graph"
    /\ Stage(runs[j]) > Stage(runs[i])

\* C21: pipeline runs are not mutually exclusive.  Nothing makes a run wait
\* for another: a writeFile that is due opens SCHEMA_PATH and writes to it
\* whatever the other runs are doing, so two sync-plus-compile runs are in
\* flight at once when two batches arrive in quick succession, and the
\* write of the run triggered first can land last (C21_Witness).
C21_RunsNotExclusive ==
  ~exited =>
    \A i \in DOMAIN runs :
      /\ runs[i].pc = "fetch" =>
           ENABLED FetchRejects(i) /\ ENABLED FetchResponds(i, TRUE)
      /\ runs[i].pc = "open" => ENABLED WriteOpens(i)
      /\ (runs[i].pc = "write" /\ runs[i].pos < Len(Content(runs[i])))
           => ENABLED WriteChunk(i, 1)
      /\ (runs[i].pc = "write" /\ runs[i].pos = Len(Content(runs[i])))
           => ENABLED WriteDone(i)

\* Two runs of the graph callback are in flight.  The run triggered second
\* has ended its sync, having written D2; the write of the run triggered
\* first, which overlapped it, has landed after that and the file holds the
\* first run's D1.  No further sync can start.
C21_Witness ==
  /\ Len(runs) = 2
  /\ runs[1].trigger = "graph" /\ runs[2].trigger = "graph"
  /\ runs[2].pc = "exec" /\ runs[2].synced
  /\ last.op = "sync" /\ last.who = "graph" /\ last.outcome = "written"
  /\ last.arg.file.data = "D2"
  /\ runs[1].pc = "write" /\ runs[1].data = "D1" /\ ~runs[1].alone
  /\ runs[1].pos = Len(Content(runs[1]))
  /\ file = << "{", "D1", "}" >>
  /\ delivered["graph"] = MaxBatches

\* C22: under every interleaving of the two subscription setups, the
\* subscribe command issued under id S carries as `since` the clock value
\* of the response to S's own clock command and as `relative_root` the
\* relative path of S's own watch-project response, never a value got for
\* the other subscription and never an absent one.
C22_OwnClockAndRoot ==
  /\ (last.op = "clock" /\ last.outcome # "error") =>
       /\ sub[last.who] = "SubscribePending"
       /\ last.arg[1] = "subscribe"
       /\ last.arg[2] = "root"
       /\ last.arg[3] = last.who
       /\ last.arg[4].since = << "clock", last.who >>
       /\ last.arg[4].relative_root =
            IF last.who = "graph" THEN "app/models/api/graph"
            ELSE "vendor/frontend/app"
       /\ last.arg[4].config = last.who
  /\ (last.op = "clock" /\ last.outcome = "error") =>
       /\ last.arg = << >>
       /\ requests[last.who].subscribe = 0
  /\ \A s \in SUBSCRIPTIONS :
       /\ requests[s].subscribe > 0 =>
            project[s] = [watch |-> "root",
                          relative_path |->
                            IF s = "graph" THEN "app/models/api/graph"
                            ELSE "vendor/frontend/app"]
       /\ sub[s] \in {"Unestablished", "WatchPending"} =>
            project[s] = [watch |-> "none", relative_path |-> "none"]

\* The frontend subscription's subscribe command has been issued after the
\* graph subscription's watch-project response and before its clock
\* response: the two setups are interleaved.
C22_Witness ==
  /\ last.op = "clock" /\ last.who = "frontend" /\ last.outcome = "ok"
  /\ sub["graph"] = "ClockPending"
  /\ project["graph"].watch = "root"

\* C23: while runs are in flight, waiting for the HTTP response or the
\* compiler subprocess, a batch for either Active subscription is still
\* dispatched, and the dispatch starts the callback's run beside the runs
\* in flight, which stay where they were.
C23_SlowHandlerDoesNotBlock ==
  \A s \in SUBSCRIPTIONS :
    ( /\ ~exited /\ conn = "open" /\ sub[s] = "Active"
      /\ delivered["graph"] + delivered["frontend"] < MaxBatches
      /\ \E i \in DOMAIN runs : runs[i].pc \in {"fetch", "json", "exec"} ) =>
      \A files \in FileLists :
        ENABLED ( /\ Deliver(s, files)
                  /\ Len(runs') = Len(runs) + 1
                  /\ SubSeq(runs', 1, Len(runs)) = runs
                  /\ runs'[Len(runs')].trigger = s
                  /\ runs'[Len(runs')].pc =
                       (IF s = "graph" THEN "fetch" ELSE "exec") )

\* A batch for the frontend subscription has been dispatched and its
\* compiler started while the schema sync of a graph batch still waits for
\* the HTTP response.
C23_Witness ==
  /\ last.op = "deliver" /\ last.who = "frontend"
  /\ Len(runs) = 2
  /\ runs[1].trigger = "graph" /\ runs[1].pc = "fetch"
  /\ runs[2].trigger = "frontend" /\ runs[2].pc = "exec"
  /\ ~exited

\* C24 as stated: the write of SCHEMA_PATH is atomic: while one or more
\* syncs are writing, and after the process has been shut down, the file
\* holds the complete previous content or the complete text of a
\* { data }, never an empty, truncated or mixed one.
C24_WriteAtomic ==
  /\ (\E i \in DOMAIN runs : runs[i].pc = "write") =>
       \E d \in DataValues \cup {"D0"} : file = JSONStringify(d)
  /\ exited =>
       /\ file # << >>
       /\ \E d \in DataValues \cup {"D0"} : file = JSONStringify(d)

\* C25: with an HTTP request, a snapshot write or a compiler subprocess in
\* flight, or the capability check unanswered, a termination signal leads
\* in one step to exit with status 0, the operations in flight dropped
\* where they were; once the process has exited nothing more happens: no
\* callback is invoked, the file is not written, no pipeline step starts.
C25_ShutdownDoesNotWait ==
  /\ ( /\ ~exited
       /\ \/ phase = "capability"
          \/ \E i \in DOMAIN runs : runs[i].pc \in {"fetch", "open", "write", "exec"} ) =>
       \A signal \in Signals :
         ENABLED ( /\ SignalHandler(signal)
                   /\ exited' /\ exitCode' = 0
                   /\ runs' = << >>
                   /\ file' = file /\ started' = started /\ invoked' = invoked )
  /\ last.op = "signal" => exited /\ exitCode = 0 /\ runs = << >>
  /\ exited => ~ENABLED Next

\* SIGTERM has ended the process while a sync had the snapshot file open
\* and not yet fully written; the file stays as it was at that moment.
C25_Witness ==
  /\ last.op = "signal" /\ last.who = "SIGTERM"
  /\ \E k \in DOMAIN last.arg : last.arg[k] = "write"
  /\ exited /\ exitCode = 0
  /\ file = << "{" >>

\* C26: at startup and in the callback of the graph subscription,
\* compileRelayGeneratedArtifacts is started when syncGraphqlSchemaToDisk
\* ends, whatever the outcome: written, non-success status, network
\* failure, invalid body, `errors` or a file that cannot be opened.  After a failed sync the compiler
\* runs against the snapshot as that sync found it.
C26_SyncFailureKeepsCodegen ==
  /\ last.op = "sync" =>
       /\ last.who \in {"init", "graph"}
       /\ last.outcome \in {"written", "status", "network", "invalid", "errors",
                           "writefail"}
       /\ \E i \in DOMAIN runs :
            /\ runs[i].trigger = last.who
            /\ runs[i].pc = "exec"
            /\ runs[i].synced
       /\ last.outcome # "written" => ~last.arg.file.opened
  /\ ~exited =>
       \A t \in {"init", "graph"} :
         started[t].compile = started[t].sync - CountRuns(runs, t, SyncPcs)

\* The sync of a graph batch has failed at the network level after the
\* initial sync wrote the snapshot; the compiler of that batch is running.
C26_Witness ==
  /\ last.op = "sync" /\ last.who = "graph" /\ last.outcome = "network"
  /\ file = JSONStringify("D1")
  /\ started["graph"].compile = 1
  /\ \E i \in DOMAIN runs : runs[i].trigger = "graph" /\ runs[i].pc = "exec"

C28_DeleteIffCreatedNotActivated ==
  LET deletes ==
        SelectSeq(component.committed, LAMBDA m : m.mutation = "totpDelete")
      atUnmount == component.completedAtUnmount
  IN  /\ component.mounted # "unmounted" => deletes = << >>
      /\ component.mounted = "unmounted" =>
           /\ deletes # << >> <=>
                ("totpCreate" \in atUnmount /\ "totpActivate" \notin atUnmount)
           /\ Len(deletes) <= 1
           /\ deletes # << >> =>
                /\ deletes[1].input.id \in TotpIds
                /\ deletes[1].input.id = component.state.totpId
      /\ (component.mounted = "yes" /\ "totpActivate" \in component.completed) =>
           /\ component.state.totpId = "null"
           /\ component.state.activatedTOTP

\* The instance was unmounted while the create mutation was waiting for
\* its answer, no delete was committed, and the create has completed since.
C28_Witness ==
  /\ component.mounted = "unmounted"
  /\ component.completedAtUnmount = {}
  /\ component.completed = {"totpCreate"}
  /\ component.committed =
       << [mutation |-> "totpCreate", input |-> [id |-> "none", token |-> "none"]] >>
  /\ component.state.totpId = "null"


====
